---- MODULE Spec2Model ----
(***************************************************************************)
(* Unit compatibility of meters and groups (OED,                           *)
(* src/client/app/utils/determineCompatibleUnits.ts).                      *)
(*                                                                         *)
(* The Redux store (units, meters, groups) and the conversion array Pik    *)
(* are the state; the exported functions of the file are operators over    *)
(* that state, and each call of one of them is an action that records the  *)
(* call and what it returned (or that it threw).                           *)
(*                                                                         *)
(* The source file holds two revisions of the module one after the other;  *)
(* the resolvers and groupCase are the same in both, and the candidates    *)
(* and menu builders are taken from the later one (lines 444 to 653).      *)
(***************************************************************************)
EXTENDS Integers, Sequences, FiniteSets, TLC

VARIABLES
    units,      \* state.units.units: the unit catalog, in iteration order
    meters,     \* state.meters.byMeterID: meter id -> [id, unitId]
    groups,     \* state.groups.byGroupID: group id -> [id, deepMeters, defaultGraphicUnit]
    pik,        \* ConversionArray.pik: rows of booleans (<<>> before it is loaded)
    available,  \* what ConversionArray.pikAvailable() returns
    call,       \* the last call made on the current store: [op, ...arguments]
    ret         \* what that call produced: [status, val]

vars == <<units, meters, groups, pik, available, call, ret>>
store == <<units, meters, groups, pik, available>>

----------------------------------------------------------------------------
(* Bounds of the model *)

\* groupCase is exercised on all sets of unit ids drawn from 1..MaxUnitId.
MaxUnitId == 4
\* Number of meter-typed (source) units = rows of Pik.
NumSrc == 2
\* Number of units of any other type = columns of Pik.
NumTgt == 2

----------------------------------------------------------------------------
(* Program constants *)

\* "If unit was null in the database then -99."
NoUnit == -99

\* UnitType.meter and one representative of the other unit types.
UnitTypeMeter == "meter"
UnitTypeUnit == "unit"

\* enum GroupCase
NoChange == "NO_CHANGE"
LostCompatibleUnits == "LOST_COMPATIBLE_UNITS"
LostDefaultGraphicUnit == "LOST_DEFAULT_GRAPHIC_UNIT"
NoCompatibleUnits == "NO_COMPATIBLE_UNITS"
GroupCase == {NoChange, LostCompatibleUnits, LostDefaultGraphicUnit, NoCompatibleUnits}

----------------------------------------------------------------------------
(* Results of a call: a value, or the TypeError thrown when a property of  *)
(* the undefined result of _.find is read (the spec's UnitNotFound).       *)

Ok(v) == [status |-> "ok", val |-> v]
UnitNotFound == [status |-> "UnitNotFound", val |-> {}]
\* Any other TypeError (a property read on an undefined Pik row).
TypeError == [status |-> "TypeError", val |-> {}]
Failed(r) == r.status # "ok"

NoCall == [op |-> "none"]
NoRet == [status |-> "none", val |-> {}]

----------------------------------------------------------------------------
(* The change classifier *)

\* A plausible slip: the filter keeps the elements that are NOT in setB.
setIntersect_Difference(setA, setB) == {i \in setA : i \notin setB}

\* new Set(Array.from(setA).filter(i => setB.has(i)))
setIntersect(setA, setB) == {i \in setA : i \in setB}

\* A plausible slip: the intersection is made in place, by deleting from setA the
\* elements that setB does not hold.
setIntersectArguments_InPlace(setA, setB) == [setA |-> setA \cap setB, setB |-> setB]

\* The two argument sets once setIntersect has returned: the result is a new Set
\* made from a filtered copy of setA, and both arguments are only read.
setIntersectArguments(setA, setB) == [setA |-> setA, setB |-> setB]

\* A plausible slip: the default-graphic-unit test placed before the total-loss test.
groupCase_DefaultFirst(currentUnits, newUnits, defaultGraphicUnit) ==
    LET intersection == setIntersect(currentUnits, newUnits)
        lostUnits == {x \in currentUnits : x \notin intersection}
    IN  IF Cardinality(lostUnits) = 0 THEN NoChange
        ELSE IF defaultGraphicUnit # NoUnit /\ defaultGraphicUnit \in lostUnits
             THEN LostDefaultGraphicUnit
        ELSE IF Cardinality(lostUnits) = Cardinality(currentUnits) THEN NoCompatibleUnits
        ELSE LostCompatibleUnits

\* A plausible slip: the last branch is lost, so that the function falls off its
\* end and yields undefined.
groupCase_NoElse(currentUnits, newUnits, defaultGraphicUnit) ==
    LET intersection == setIntersect(currentUnits, newUnits)
        lostUnits == {x \in currentUnits : x \notin intersection}
    IN  IF Cardinality(lostUnits) = 0 THEN NoChange
        ELSE IF Cardinality(lostUnits) = Cardinality(currentUnits) THEN NoCompatibleUnits
        ELSE IF defaultGraphicUnit # NoUnit /\ defaultGraphicUnit \in lostUnits
             THEN LostDefaultGraphicUnit
        ELSE "undefined"

\* A plausible slip: the total-loss test compares with the size of newUnits.
groupCase_SizeOfNew(currentUnits, newUnits, defaultGraphicUnit) ==
    LET intersection == setIntersect(currentUnits, newUnits)
        lostUnits == {x \in currentUnits : x \notin intersection}
    IN  IF Cardinality(lostUnits) = 0 THEN NoChange
        ELSE IF Cardinality(lostUnits) = Cardinality(newUnits) THEN NoCompatibleUnits
        ELSE IF defaultGraphicUnit # NoUnit /\ defaultGraphicUnit \in lostUnits
             THEN LostDefaultGraphicUnit
        ELSE LostCompatibleUnits

\* A plausible slip: the third branch tests the surviving units instead of the lost ones.
groupCase_DefaultKept(currentUnits, newUnits, defaultGraphicUnit) ==
    LET intersection == setIntersect(currentUnits, newUnits)
        lostUnits == {x \in currentUnits : x \notin intersection}
    IN  IF Cardinality(lostUnits) = 0 THEN NoChange
        ELSE IF Cardinality(lostUnits) = Cardinality(currentUnits) THEN NoCompatibleUnits
        ELSE IF defaultGraphicUnit # NoUnit /\ defaultGraphicUnit \in intersection
             THEN LostDefaultGraphicUnit
        ELSE LostCompatibleUnits

groupCase(currentUnits, newUnits, defaultGraphicUnit) ==
    LET intersection == setIntersect(currentUnits, newUnits)
        lostUnits == {x \in currentUnits : x \notin intersection}
    IN  IF Cardinality(lostUnits) = 0 THEN NoChange
        ELSE IF Cardinality(lostUnits) = Cardinality(currentUnits) THEN NoCompatibleUnits
        ELSE IF defaultGraphicUnit # NoUnit /\ defaultGraphicUnit \in lostUnits
             THEN LostDefaultGraphicUnit
        ELSE LostCompatibleUnits

\* The two argument sets once groupCase has returned: they went through
\* setIntersect, and lostUnits is a new Set made from a filtered copy of currentUnits.
groupCaseArguments(currentUnits, newUnits) ==
    LET intersected == setIntersectArguments(currentUnits, newUnits)
    IN  [currentUnits |-> intersected.setA, newUnits |-> intersected.setB]

----------------------------------------------------------------------------
(* The store the resolvers read.                                           *)
(*                                                                         *)
(* Unit ids 1..NumSrc are the meter-typed units (unitIndex = row of Pik),  *)
(* the next NumTgt ids are units of another type (unitIndex = column of    *)
(* Pik), so that every meter-typed unit has its own row and every other    *)
(* unit its own column. The catalog held by the client is the whole list,  *)
(* the list with one unit missing, or nothing yet.                         *)

SrcIds == 1..NumSrc
TgtIds == (NumSrc + 1)..(NumSrc + NumTgt)
UnknownId == NumSrc + NumTgt + 1

UnitData(id) ==
    IF id \in SrcIds
    THEN [id |-> id, typeOfUnit |-> UnitTypeMeter, unitIndex |-> id - 1]
    ELSE [id |-> id, typeOfUnit |-> UnitTypeUnit, unitIndex |-> id - NumSrc - 1]

\* The units with their ids in S, in ascending order of id.
RECURSIVE CatalogOf(_)
CatalogOf(S) ==
    IF S = {} THEN <<>>
    ELSE LET m == CHOOSE x \in S : \A y \in S : x <= y
         IN  <<UnitData(m)>> \o CatalogOf(S \ {m})

AllUnitIds == SrcIds \cup TgtIds
Catalogs ==
    {CatalogOf(AllUnitIds), <<>>} \cup {CatalogOf(AllUnitIds \ {u}) : u \in AllUnitIds}

\* Every matrix of NumSrc rows and NumTgt columns of booleans.
PikArrays == [1..NumSrc -> [1..NumTgt -> BOOLEAN]]

\* One meter per meter-typed unit, and one meter without a unit.
NumMeters == NumSrc + 1
MeterIds == 1..NumMeters
MeterTable ==
    [m \in MeterIds |-> [id |-> m, unitId |-> IF m \in SrcIds THEN m ELSE NoUnit]]

\* Sequences without repetition over S: the iteration orders of a Set<number>.
RECURSIVE Orderings(_)
Orderings(S) ==
    IF S = {} THEN {<<>>}
    ELSE UNION {{<<x>> \o t : t \in Orderings(S \ {x})} : x \in S}
MeterSeqs == UNION {Orderings(S) : S \in SUBSET MeterIds}

Range(f) == {f[i] : i \in DOMAIN f}

----------------------------------------------------------------------------
(* The unit compatibility resolver *)

\* _.find over the catalog: hits are the positions whose unit satisfies the
\* predicate; the first of them is found, 0 stands for undefined.
Find(hits) ==
    IF hits = {} THEN 0 ELSE CHOOSE i \in hits : \A j \in hits : i <= j

pRowFromUnit(unitId) ==
    LET i == Find({j \in 1..Len(units) : units[j].id = unitId /\ units[j].typeOfUnit = UnitTypeMeter})
    IN  IF i = 0 THEN UnitNotFound ELSE Ok(units[i].unitIndex)

unitFromPRow(row) ==
    LET i == Find({j \in 1..Len(units) : units[j].unitIndex = row /\ units[j].typeOfUnit = UnitTypeMeter})
    IN  IF i = 0 THEN UnitNotFound ELSE Ok(units[i].id)

\* A plausible slip: the column is looked up among the meter-typed units.
unitFromPColumn_MeterType(column) ==
    LET i == Find({j \in 1..Len(units) : units[j].unitIndex = column /\ units[j].typeOfUnit = UnitTypeMeter})
    IN  IF i = 0 THEN UnitNotFound ELSE Ok(units[i].id)

unitFromPColumn(column) ==
    LET i == Find({j \in 1..Len(units) : units[j].unitIndex = column /\ units[j].typeOfUnit # UnitTypeMeter})
    IN  IF i = 0 THEN UnitNotFound ELSE Ok(units[i].id)

\* ConversionArray.pikAvailable()
pikAvailable == available

\* pik[0].length; reading it throws when Pik holds no row.
PikColumns == IF Len(pik) = 0 THEN TypeError ELSE Ok(Len(pik[1]))

\* The loop over the columns k, k+1, ... of one row, unitSet being what was added so far.
RECURSIVE ColumnLoop(_, _, _, _)
ColumnLoop(row, k, length, unitSet) ==
    IF ~(k < length) THEN Ok(unitSet)
    ELSE IF pik[row + 1][k + 1]
         THEN LET u == unitFromPColumn(k)
              IN  IF Failed(u) THEN u
                  ELSE ColumnLoop(row, k + 1, length, unitSet \cup {u.val})
         ELSE ColumnLoop(row, k + 1, length, unitSet)

\* The body of the if of unitsCompatibleWithUnit.
RowUnits(unitId) ==
    LET row == pRowFromUnit(unitId)
        length == PikColumns
    IN  IF Failed(row) THEN row
        ELSE IF Failed(length) THEN length
        ELSE ColumnLoop(row.val, 0, length.val, {})

\* A plausible slip: the test of the sentinel is missing.
unitsCompatibleWithUnit_NoSentinelTest(unitId) ==
    IF pikAvailable THEN RowUnits(unitId) ELSE Ok({})

\* A plausible slip: Pik is read without asking whether it is available.
unitsCompatibleWithUnit_NoAvailableTest(unitId) ==
    IF unitId # NoUnit THEN RowUnits(unitId) ELSE Ok({})

unitsCompatibleWithUnit(unitId) ==
    IF unitId # NoUnit /\ pikAvailable THEN RowUnits(unitId) ELSE Ok({})

----------------------------------------------------------------------------
(* The meter set resolver *)

DataTypeMeter == "meters"
DataTypeGroup == "groups"

\* The set is seeded by the first meter and intersected with every later one; an
\* exception thrown for one meter ends the forEach and the call.
RECURSIVE MetersLoop(_, _, _, _)
MetersLoop(meterIds, i, first, compatibleUnits) ==
    IF i > Len(meterIds) THEN Ok(compatibleUnits)
    ELSE LET meter == meters[meterIds[i]]
             meterUnits == IF meter.unitId # NoUnit
                           THEN unitsCompatibleWithUnit(meter.unitId)
                           ELSE Ok({})
         IN  IF Failed(meterUnits) THEN meterUnits
             ELSE IF first
                  THEN MetersLoop(meterIds, i + 1, FALSE, meterUnits.val)
                  ELSE MetersLoop(meterIds, i + 1, FALSE,
                                  setIntersect(compatibleUnits, meterUnits.val))

\* A plausible slip: the accumulator starts empty and the first meter is intersected
\* with it like every other one.
unitsCompatibleWithMeters_NoFirst(meterIds) == MetersLoop(meterIds, 1, FALSE, {})

\* A plausible slip: a meter whose unit cannot be resolved is taken to have no
\* compatible unit instead of ending the call.
RECURSIVE MetersLoop_Swallow(_, _, _, _)
MetersLoop_Swallow(meterIds, i, first, compatibleUnits) ==
    IF i > Len(meterIds) THEN Ok(compatibleUnits)
    ELSE LET meter == meters[meterIds[i]]
             found == IF meter.unitId # NoUnit
                      THEN unitsCompatibleWithUnit(meter.unitId)
                      ELSE Ok({})
             meterUnits == IF Failed(found) THEN Ok({}) ELSE found
         IN  IF first
             THEN MetersLoop_Swallow(meterIds, i + 1, FALSE, meterUnits.val)
             ELSE MetersLoop_Swallow(meterIds, i + 1, FALSE,
                                     setIntersect(compatibleUnits, meterUnits.val))
unitsCompatibleWithMeters_Swallow(meterIds) == MetersLoop_Swallow(meterIds, 1, TRUE, {})

\* A plausible slip: first is never set to false, so that every meter replaces the
\* set instead of being intersected with it.
RECURSIVE MetersLoop_FirstStays(_, _, _)
MetersLoop_FirstStays(meterIds, i, compatibleUnits) ==
    IF i > Len(meterIds) THEN Ok(compatibleUnits)
    ELSE LET meter == meters[meterIds[i]]
             meterUnits == IF meter.unitId # NoUnit
                           THEN unitsCompatibleWithUnit(meter.unitId)
                           ELSE Ok({})
         IN  IF Failed(meterUnits) THEN meterUnits
             ELSE MetersLoop_FirstStays(meterIds, i + 1, meterUnits.val)
unitsCompatibleWithMeters_FirstStays(meterIds) == MetersLoop_FirstStays(meterIds, 1, {})

\* A plausible slip: the set is seeded with every unit of the catalog and each
\* meter, the first included, is intersected with it.
unitsCompatibleWithMeters_SeedAll(meterIds) ==
    MetersLoop(meterIds, 1, FALSE, {units[j].id : j \in 1..Len(units)})

\* meterIds is the Set<number> in its iteration order.
unitsCompatibleWithMeters(meterIds) == MetersLoop(meterIds, 1, TRUE, {})

\* new Set(array): the elements of the array in order of first occurrence.
RECURSIVE SetOfArray(_)
SetOfArray(array) ==
    IF array = <<>> THEN <<>>
    ELSE LET front == SetOfArray(SubSeq(array, 1, Len(array) - 1))
             last == array[Len(array)]
         IN  IF last \in Range(front) THEN front ELSE Append(front, last)

metersInGroup(groupId) == SetOfArray(groups[groupId].deepMeters)

----------------------------------------------------------------------------
(* Candidates and menus *)

getCompatibleUnits(id, type) ==
    IF type = DataTypeMeter
    THEN \* byMeterID[id] is undefined for an id that is no meter's
         IF id \in DOMAIN meters THEN unitsCompatibleWithUnit(meters[id].unitId)
         ELSE TypeError
    ELSE unitsCompatibleWithMeters(metersInGroup(id))

getCompatibilityChangeCase(otherUnits, id, type, defaultGraphicUnit) ==
    LET newUnits == getCompatibleUnits(id, type)
    IN  IF Failed(newUnits) THEN newUnits
        ELSE Ok(groupCase(otherUnits, newUnits.val, defaultGraphicUnit))

getMenuOptionFont(compatibilityChangeCase) ==
    CASE compatibilityChangeCase = NoChange -> "black"
      [] compatibilityChangeCase = LostCompatibleUnits -> "yellow"
      [] compatibilityChangeCase = LostDefaultGraphicUnit -> "red"
      [] OTHER -> "none"

\* A plausible slip: a candidate that loses the default graphic unit is disabled too.
RECURSIVE OptionsLoop_DisableLostDefault(_, _, _, _, _, _)
OptionsLoop_DisableLostDefault(ids, i, type, currentUnits, defaultGraphicUnit, options) ==
    IF i > Len(ids) THEN Ok(options)
    ELSE LET compatibilityChangeCase ==
                 getCompatibilityChangeCase(currentUnits, ids[i], type, defaultGraphicUnit)
         IN  IF Failed(compatibilityChangeCase) THEN compatibilityChangeCase
             ELSE LET option ==
                          IF compatibilityChangeCase.val \in {NoCompatibleUnits, LostDefaultGraphicUnit}
                          THEN [value |-> ids[i], isDisabled |-> TRUE, style |-> "none"]
                          ELSE [value |-> ids[i], isDisabled |-> FALSE,
                                style |-> getMenuOptionFont(compatibilityChangeCase.val)]
                  IN  OptionsLoop_DisableLostDefault(ids, i + 1, type, currentUnits,
                                                     defaultGraphicUnit, Append(options, option))

\* The forEach over the candidates ids[i], ids[i+1], ...; options is what was pushed so far.
RECURSIVE OptionsLoop(_, _, _, _, _, _)
OptionsLoop(ids, i, type, currentUnits, defaultGraphicUnit, options) ==
    IF i > Len(ids) THEN Ok(options)
    ELSE LET compatibilityChangeCase ==
                 getCompatibilityChangeCase(currentUnits, ids[i], type, defaultGraphicUnit)
         IN  IF Failed(compatibilityChangeCase) THEN compatibilityChangeCase
             ELSE LET option ==
                          IF compatibilityChangeCase.val = NoCompatibleUnits
                          THEN [value |-> ids[i], isDisabled |-> TRUE, style |-> "none"]
                          ELSE [value |-> ids[i], isDisabled |-> FALSE,
                                style |-> getMenuOptionFont(compatibilityChangeCase.val)]
                  IN  OptionsLoop(ids, i + 1, type, currentUnits, defaultGraphicUnit,
                                  Append(options, option))

\* Object.values of a table keyed by id: the ids in ascending order.
IdsOf(table) == [i \in 1..Len(table) |-> table[i].id]

getMeterMenuOptionsForGroup(gid) ==
    LET currentUnits == unitsCompatibleWithMeters(metersInGroup(gid))
        defaultGraphicUnit == groups[gid].defaultGraphicUnit
    IN  IF Failed(currentUnits) THEN currentUnits
        ELSE OptionsLoop(IdsOf(meters), 1, DataTypeMeter, currentUnits.val,
                         defaultGraphicUnit, <<>>)

getGroupMenuOptionsForGroup(gid) ==
    LET currentUnits == unitsCompatibleWithMeters(metersInGroup(gid))
        defaultGraphicUnit == groups[gid].defaultGraphicUnit
    IN  IF Failed(currentUnits) THEN currentUnits
        ELSE OptionsLoop(IdsOf(groups), 1, DataTypeGroup, currentUnits.val,
                         defaultGraphicUnit, <<>>)

\* The message is the sequence of its lines; '' is the empty sequence. Only the
\* first statements are code: the loop over the containing groups is a comment.
getGroupPostUpdateDiagnostics(gid) ==
    LET currentUnits == unitsCompatibleWithMeters(metersInGroup(gid))
        msg == <<>>
    IN  IF Failed(currentUnits) THEN currentUnits ELSE Ok(msg)

\* The older revision of the two menu builders (the first copy in the file): its
\* options carry no style, and its group menu hands the id of the candidate
\* group to the classifier as DataType.Meter.
RECURSIVE OptionsLoop_Rev1(_, _, _, _, _, _)
OptionsLoop_Rev1(ids, i, type, currentUnits, defaultGraphicUnit, options) ==
    IF i > Len(ids) THEN Ok(options)
    ELSE LET compatibilityChangeCase ==
                 getCompatibilityChangeCase(currentUnits, ids[i], type, defaultGraphicUnit)
         IN  IF Failed(compatibilityChangeCase) THEN compatibilityChangeCase
             ELSE LET option ==
                          [value |-> ids[i],
                           isDisabled |-> (compatibilityChangeCase.val = NoCompatibleUnits)]
                  IN  OptionsLoop_Rev1(ids, i + 1, type, currentUnits, defaultGraphicUnit,
                                       Append(options, option))

getMeterMenuOptionsForGroup_Rev1(gid) ==
    LET currentUnits == unitsCompatibleWithMeters(metersInGroup(gid))
        defaultGraphicUnit == groups[gid].defaultGraphicUnit
    IN  IF Failed(currentUnits) THEN currentUnits
        ELSE OptionsLoop_Rev1(IdsOf(meters), 1, DataTypeMeter, currentUnits.val,
                              defaultGraphicUnit, <<>>)

getGroupMenuOptionsForGroup_Rev1(gid) ==
    LET currentUnits == unitsCompatibleWithMeters(metersInGroup(gid))
        defaultGraphicUnit == groups[gid].defaultGraphicUnit
    IN  IF Failed(currentUnits) THEN currentUnits
        ELSE OptionsLoop_Rev1(IdsOf(groups), 1, DataTypeMeter, currentUnits.val,
                              defaultGraphicUnit, <<>>)

----------------------------------------------------------------------------
(* Specification of the classifier alone: the store stays as constructed   *)
(* and groupCase is applied to every triple of inputs.                     *)

UnitIdSets == SUBSET (1..MaxUnitId)
DefaultUnits == (1..MaxUnitId) \cup {NoUnit}

\* The groups of the store: one holding every meter that has a unit, one holding a
\* single meter, one without meters and one holding the meter without unit.
GroupTable ==
    << [id |-> 1, deepMeters |-> [i \in 1..NumSrc |-> i], defaultGraphicUnit |-> NumSrc + 1],
       [id |-> 2, deepMeters |-> <<1>>, defaultGraphicUnit |-> NumSrc + NumTgt],
       [id |-> 3, deepMeters |-> <<>>, defaultGraphicUnit |-> NoUnit],
       [id |-> 4, deepMeters |-> <<NumMeters>>, defaultGraphicUnit |-> NoUnit] >>
GroupIds == DOMAIN GroupTable

\* Meters and groups are in the store; the units and Pik have not arrived yet.
Init ==
    /\ units = <<>>
    /\ meters = MeterTable
    /\ groups = GroupTable
    /\ pik = <<>>
    /\ available = FALSE
    /\ call = NoCall
    /\ ret = NoRet

\* The caller takes the result; the next call starts from there.
Return ==
    /\ call # NoCall
    /\ ret # NoRet
    /\ call' = NoCall
    /\ ret' = NoRet
    /\ UNCHANGED store

CallGroupCase ==
    \E currentUnits \in UnitIdSets, newUnits \in UnitIdSets, defaultGraphicUnit \in DefaultUnits :
        /\ call = NoCall
        /\ call' = [op |-> "groupCase", currentUnits |-> currentUnits, newUnits |-> newUnits,
                    defaultGraphicUnit |-> defaultGraphicUnit]
        /\ ret' = Ok(groupCase(currentUnits, newUnits, defaultGraphicUnit))
        /\ UNCHANGED store

NextGroupCase == CallGroupCase \/ Return

SpecGroupCase == Init /\ [][NextGroupCase]_vars

----------------------------------------------------------------------------
(* Specification of the resolvers and menus over the store: the catalog    *)
(* and Pik arrive from the server between calls.                           *)

\* A plausible slip: the builders await between two candidates.
PassYields_Async == TRUE

\* Whether a function of the file gives up control before it returns: none is
\* async, none awaits, and forEach calls its callback synchronously, so a call runs
\* to completion before another task (a dispatch to the store) runs.
PassYields == FALSE

\* The unit catalog is (re)loaded.
ReceiveUnits ==
    \E catalog \in Catalogs :
        /\ (call = NoCall \/ PassYields)
        /\ units' = catalog
        /\ UNCHANGED <<meters, groups, pik, available, call, ret>>

\* Pik arrives; from then on it is available.
ReceiveConversionArray ==
    \E pikArray \in PikArrays :
        /\ (call = NoCall \/ PassYields)
        /\ ~available
        /\ pik' = pikArray
        /\ available' = TRUE
        /\ UNCHANGED <<units, meters, groups, call, ret>>

QueryIds == AllUnitIds \cup {UnknownId, NoUnit}

CallUnitsCompatibleWithUnit ==
    \E unitId \in QueryIds :
        /\ call = NoCall
        /\ call' = [op |-> "unitsCompatibleWithUnit", unitId |-> unitId]
        /\ ret' = unitsCompatibleWithUnit(unitId)
        /\ UNCHANGED store

CallUnitsCompatibleWithMeters ==
    \E meterIds \in MeterSeqs :
        /\ call = NoCall
        /\ call' = [op |-> "unitsCompatibleWithMeters", meters |-> meterIds]
        /\ ret' = unitsCompatibleWithMeters(meterIds)
        /\ UNCHANGED store

CallGetMeterMenuOptionsForGroup ==
    \E gid \in GroupIds :
        /\ call = NoCall
        /\ call' = [op |-> "getMeterMenuOptionsForGroup", gid |-> gid]
        /\ ret' = getMeterMenuOptionsForGroup(gid)
        /\ UNCHANGED store

CallGetGroupMenuOptionsForGroup ==
    \E gid \in GroupIds :
        /\ call = NoCall
        /\ call' = [op |-> "getGroupMenuOptionsForGroup", gid |-> gid]
        /\ ret' = getGroupMenuOptionsForGroup(gid)
        /\ UNCHANGED store

CallGetMeterMenuOptionsForGroup_Rev1 ==
    \E gid \in GroupIds :
        /\ call = NoCall
        /\ call' = [op |-> "getMeterMenuOptionsForGroup_Rev1", gid |-> gid]
        /\ ret' = getMeterMenuOptionsForGroup_Rev1(gid)
        /\ UNCHANGED store

CallGetGroupMenuOptionsForGroup_Rev1 ==
    \E gid \in GroupIds :
        /\ call = NoCall
        /\ call' = [op |-> "getGroupMenuOptionsForGroup_Rev1", gid |-> gid]
        /\ ret' = getGroupMenuOptionsForGroup_Rev1(gid)
        /\ UNCHANGED store

CallGetGroupPostUpdateDiagnostics ==
    \E gid \in GroupIds :
        /\ call = NoCall
        /\ call' = [op |-> "getGroupPostUpdateDiagnostics", gid |-> gid]
        /\ ret' = getGroupPostUpdateDiagnostics(gid)
        /\ UNCHANGED store

Next ==
    \/ ReceiveUnits
    \/ ReceiveConversionArray
    \/ CallUnitsCompatibleWithUnit
    \/ CallUnitsCompatibleWithMeters
    \/ CallGetMeterMenuOptionsForGroup
    \/ CallGetGroupMenuOptionsForGroup
    \/ CallGetMeterMenuOptionsForGroup_Rev1
    \/ CallGetGroupMenuOptionsForGroup_Rev1
    \/ CallGetGroupPostUpdateDiagnostics
    \/ Return

Spec == Init /\ [][Next]_vars

----------------------------------------------------------------------------
(* Specification of every operation of the file over the store: the calls  *)
(* of Spec and, called on their own, metersInGroup, setIntersect and        *)
(* getCompatibilityChangeCase, each with the arguments after the call.      *)

CallMetersInGroup ==
    \E gid \in GroupIds :
        /\ call = NoCall
        /\ call' = [op |-> "metersInGroup", gid |-> gid]
        /\ ret' = Ok(metersInGroup(gid))
        /\ UNCHANGED store

\* setIntersect as unitsCompatibleWithMeters calls it: the units accumulated so far
\* (those of the meters of a group) with the units of one more meter.
CallSetIntersect ==
    \E gid \in GroupIds, meterId \in DOMAIN meters :
        LET compatibleUnits == unitsCompatibleWithMeters(metersInGroup(gid))
            meterUnits == unitsCompatibleWithUnit(meters[meterId].unitId)
        IN  /\ call = NoCall
            /\ ~Failed(compatibleUnits) /\ ~Failed(meterUnits)
            /\ call' = [op |-> "setIntersect", setA |-> compatibleUnits.val,
                        setB |-> meterUnits.val,
                        after |-> setIntersectArguments(compatibleUnits.val, meterUnits.val)]
            /\ ret' = Ok(setIntersect(compatibleUnits.val, meterUnits.val))
            /\ UNCHANGED store

\* getCompatibilityChangeCase as the menu builders call it for group gid and one
\* candidate; groupCase is reached when the candidate's units were resolved.
CallGetCompatibilityChangeCase ==
    \E gid \in GroupIds, type \in {DataTypeMeter, DataTypeGroup} :
        \E id \in (IF type = DataTypeMeter THEN DOMAIN meters ELSE DOMAIN groups) :
            LET currentUnits == unitsCompatibleWithMeters(metersInGroup(gid))
                defaultGraphicUnit == groups[gid].defaultGraphicUnit
                newUnits == getCompatibleUnits(id, type)
            IN  /\ call = NoCall
                /\ ~Failed(currentUnits)
                /\ call' = [op |-> "getCompatibilityChangeCase",
                            otherUnits |-> currentUnits.val, id |-> id, type |-> type,
                            defaultGraphicUnit |-> defaultGraphicUnit,
                            classified |-> ~Failed(newUnits),
                            newUnits |-> newUnits.val,
                            after |-> IF Failed(newUnits)
                                      THEN [currentUnits |-> currentUnits.val, newUnits |-> {}]
                                      ELSE groupCaseArguments(currentUnits.val, newUnits.val)]
                /\ ret' = getCompatibilityChangeCase(currentUnits.val, id, type,
                                                     defaultGraphicUnit)
                /\ UNCHANGED store

NextFrame ==
    \/ Next
    \/ CallMetersInGroup
    \/ CallSetIntersect
    \/ CallGetCompatibilityChangeCase

SpecFrame == Init /\ [][NextFrame]_vars

----------------------------------------------------------------------------
(* Specification of one classification pass, read by read: a menu builder  *)
(* of the newer revision computes currentUnits, then classifies one        *)
(* candidate per step, each step reading the store as it is then.          *)

MenuBuilders == {"getMeterMenuOptionsForGroup", "getGroupMenuOptionsForGroup"}

\* The builder reads the state, currentUnits, the default graphic unit and the
\* candidates; the pass ends here when currentUnits cannot be resolved.
StartPass ==
    \E builder \in MenuBuilders, gid \in GroupIds :
        LET currentUnits == unitsCompatibleWithMeters(metersInGroup(gid))
            forMeters == builder = "getMeterMenuOptionsForGroup"
        IN  /\ call = NoCall
            /\ call' = [op |-> "pass", builder |-> builder, gid |-> gid,
                        currentUnits |-> currentUnits.val,
                        defaultGraphicUnit |-> groups[gid].defaultGraphicUnit,
                        ids |-> IF forMeters THEN IdsOf(meters) ELSE IdsOf(groups),
                        type |-> IF forMeters THEN DataTypeMeter ELSE DataTypeGroup,
                        i |-> 1, options |-> <<>>]
            /\ ret' = IF Failed(currentUnits) THEN currentUnits ELSE NoRet
            /\ UNCHANGED store

\* One turn of the forEach: the candidate ids[i] is classified and its option pushed.
StepPass ==
    /\ call.op = "pass" /\ ret = NoRet
    /\ call.i <= Len(call.ids)
    /\ LET pushed == OptionsLoop(<<call.ids[call.i]>>, 1, call.type, call.currentUnits,
                                 call.defaultGraphicUnit, call.options)
       IN  IF Failed(pushed)
           THEN call' = call /\ ret' = pushed
           ELSE call' = [call EXCEPT !.i = call.i + 1, !.options = pushed.val] /\ ret' = NoRet
    /\ UNCHANGED store

\* return options
FinishPass ==
    /\ call.op = "pass" /\ ret = NoRet
    /\ call.i > Len(call.ids)
    /\ ret' = Ok(call.options)
    /\ UNCHANGED <<store, call>>

NextPass ==
    \/ ReceiveUnits
    \/ ReceiveConversionArray
    \/ StartPass
    \/ StepPass
    \/ FinishPass
    \/ Return

SpecPass == Init /\ [][NextPass]_vars

IsGroupCaseCall == call.op = "groupCase"
\* lost = currentUnits - (currentUnits n newUnits), stated on the arguments of the call
Lost == call.currentUnits \ call.newUnits

----------------------------------------------------------------------------
(* Claims about the classifier *)

\* C1: groupCase is total and single-valued: every call returns, without failing,
\* one of the four GroupCase values and nothing else.
C1_GroupCaseTotal ==
    IsGroupCaseCall => (ret.status = "ok" /\ ret.val \in GroupCase)

\* C1 witness: a call that went through the last branch of groupCase.
C1_Witness ==
    /\ IsGroupCaseCall
    /\ Lost # {} /\ Lost # call.currentUnits
    /\ call.defaultGraphicUnit \notin Lost
    /\ ret.val = LostCompatibleUnits

\* C2: groupCase returns NoChange if and only if currentUnits is a subset of newUnits.
C2_NoChangeIffSubset ==
    IsGroupCaseCall => ((ret.val = NoChange) <=> (call.currentUnits \subseteq call.newUnits))

\* C2 witness: scenario 4, and the empty currentUnits with a non-empty newUnits.
C2_Witness ==
    /\ IsGroupCaseCall
    /\ call.currentUnits = {1, 2, 3} /\ call.newUnits = {1, 2, 3, 4}
    /\ ret.val = NoChange

\* C3: groupCase returns NoCompatibleUnits if and only if currentUnits is non-empty
\* and has no element in common with newUnits.
C3_NoCompatibleIffDisjoint ==
    IsGroupCaseCall =>
        ((ret.val = NoCompatibleUnits) <=>
            (call.currentUnits # {} /\ call.currentUnits \cap call.newUnits = {}))

\* C3 witness: a non-empty currentUnits disjoint from a non-empty newUnits.
C3_Witness ==
    /\ IsGroupCaseCall
    /\ call.currentUnits = {1, 2} /\ call.newUnits = {3, 4}
    /\ ret.val = NoCompatibleUnits

\* C4: when every unit of a non-empty currentUnits is lost, groupCase returns
\* NoCompatibleUnits and not LostDefaultGraphicUnit, also when the default unit is
\* a real unit that is among the lost ones.
C4_TotalLossPrecedence ==
    (IsGroupCaseCall /\ call.currentUnits # {} /\ call.currentUnits \cap call.newUnits = {})
        => (ret.val = NoCompatibleUnits /\ ret.val # LostDefaultGraphicUnit)

\* C4 witness: scenario 3, the lost default unit under total loss.
C4_Witness ==
    /\ IsGroupCaseCall
    /\ call.currentUnits = {1, 2, 3} /\ call.newUnits = {} /\ call.defaultGraphicUnit = 1
    /\ ret.val = NoCompatibleUnits

\* C5: under partial loss (lost is non-empty and a proper subset of currentUnits)
\* groupCase returns LostDefaultGraphicUnit exactly when the default unit is not the
\* sentinel and is lost, and LostCompatibleUnits otherwise.
C5_PartialLoss ==
    (IsGroupCaseCall /\ Lost # {} /\ Lost # call.currentUnits) =>
        IF call.defaultGraphicUnit # NoUnit /\ call.defaultGraphicUnit \in Lost
        THEN ret.val = LostDefaultGraphicUnit
        ELSE ret.val = LostCompatibleUnits

\* C5 witness: scenario 2 (the default unit 1 is lost from {1,2,3} against {2,3,4}).
C5_Witness ==
    /\ IsGroupCaseCall
    /\ call.currentUnits = {1, 2, 3} /\ call.newUnits = {2, 3, 4} /\ call.defaultGraphicUnit = 1
    /\ ret.val = LostDefaultGraphicUnit

----------------------------------------------------------------------------
(* The catalog and the relation, described without the resolvers *)

IsUnitCall == call.op = "unitsCompatibleWithUnit"
IsMetersCall == call.op = "unitsCompatibleWithMeters"
IsMeterMenuCall == call.op = "getMeterMenuOptionsForGroup"
IsGroupMenuCall == call.op = "getGroupMenuOptionsForGroup"
IsMeterMenuCall_Rev1 == call.op = "getMeterMenuOptionsForGroup_Rev1"
IsGroupMenuCall_Rev1 == call.op = "getGroupMenuOptionsForGroup_Rev1"

CatalogUnits == Range(units)
SourceUnits == {o \in CatalogUnits : o.typeOfUnit = UnitTypeMeter}
OtherUnits == {o \in CatalogUnits : o.typeOfUnit # UnitTypeMeter}

IsSourceUnitId(u) == \E o \in SourceUnits : o.id = u
RowOfUnit(u) == (CHOOSE o \in SourceUnits : o.id = u).unitIndex
Relation(r, k) == pik[r + 1][k + 1]
TrueColumns(r) == {k \in 0..(NumTgt - 1) : Relation(r, k)}
ColumnMapped(k) == \E o \in OtherUnits : o.unitIndex = k
\* { id of the non-source unit whose index is k : relation[r][k] is true }
RelatedUnits(r) == {o.id : o \in {x \in OtherUnits : Relation(r, x.unitIndex)}}

\* The unit id u cannot be resolved: the relation is ready, u is a real id, and u
\* is no meter-typed unit of the catalog or a true column of its row is no unit.
LookupFails(u) ==
    /\ available
    /\ u # NoUnit
    /\ \/ ~IsSourceUnitId(u)
       \/ \E k \in TrueColumns(RowOfUnit(u)) : ~ColumnMapped(k)

MeterLookupFails(m) == LookupFails(meters[m].unitId)
GroupLookupFails(g) == \E i \in DOMAIN groups[g].deepMeters : MeterLookupFails(groups[g].deepMeters[i])

----------------------------------------------------------------------------
(* Claims about the unit compatibility resolver *)

\* C6: unitsCompatibleWithUnit(-99) returns the empty set and does not fail, whatever
\* the catalog and whether or not the relation is ready.
C6_SentinelEmpty ==
    (IsUnitCall /\ call.unitId = NoUnit) => ret = Ok({})

\* C6 witness: the sentinel is queried while the relation is ready and holds a true
\* entry, the catalog being empty.
C6_Witness ==
    /\ IsUnitCall /\ call.unitId = NoUnit
    /\ available /\ \E r \in 0..(NumSrc - 1) : TrueColumns(r) # {}
    /\ units = <<>>
    /\ ret = Ok({})

\* C7: while the relation is not ready, unitsCompatibleWithUnit(u) returns the empty
\* set and does not fail for every u, also for ids that no meter-typed unit of the
\* catalog carries (no lookup is made, since a lookup of such an id fails).
C7_NotReadyEmpty ==
    (IsUnitCall /\ ~available) => ret = Ok({})

\* C7 witness: before the relation is ready, an id is queried that is the id of a
\* non-source unit of the catalog.
C7_Witness ==
    /\ IsUnitCall /\ ~available
    /\ call.unitId \in TgtIds /\ \E o \in OtherUnits : o.id = call.unitId
    /\ ret = Ok({})

\* C8: with the relation ready and a unit id other than the sentinel, a unit that is
\* not in the catalog makes unitsCompatibleWithUnit fail with UnitNotFound (the id is
\* no meter-typed unit, or a true column of its row is no non-source unit), and the
\* failure reaches the callers: unitsCompatibleWithMeters fails when a meter of its
\* argument has such a unit, and a menu builder fails when a deep meter of the group
\* or a candidate has one.
C8_UnitNotFoundPropagates ==
    /\ (IsUnitCall /\ LookupFails(call.unitId)) => ret = UnitNotFound
    /\ (IsMetersCall /\ \E i \in DOMAIN call.meters : MeterLookupFails(call.meters[i]))
            => ret = UnitNotFound
    /\ (IsMeterMenuCall /\ (GroupLookupFails(call.gid) \/ \E m \in DOMAIN meters : MeterLookupFails(m)))
            => ret = UnitNotFound
    /\ (IsGroupMenuCall /\ \E g \in DOMAIN groups : GroupLookupFails(g))
            => ret = UnitNotFound

\* C8 witness: a menu builder fails although every meter-typed unit is in the
\* catalog: a true column of the relation is the index of no unit.
C8_Witness ==
    /\ IsMeterMenuCall
    /\ \A u \in SrcIds : IsSourceUnitId(u)
    /\ ret = UnitNotFound

\* C9 as stated: with the relation ready and u the id of a meter-typed unit of row r,
\* unitsCompatibleWithUnit(u) returns the ids of the non-source units whose column
\* is true in row r.
C9_AsStated ==
    (IsUnitCall /\ available /\ IsSourceUnitId(call.unitId))
        => ret = Ok(RelatedUnits(RowOfUnit(call.unitId)))

\* C9 (amended): with the relation ready and u the id of a meter-typed unit of row r,
\* unitsCompatibleWithUnit(u) returns exactly the ids of the non-source units whose
\* column is true in row r (no unit of a false column, never the sentinel) provided
\* every true column of row r is the index of a non-source unit of the catalog;
\* otherwise it fails with UnitNotFound.
C9_RelatedUnits ==
    (IsUnitCall /\ available /\ IsSourceUnitId(call.unitId)) =>
        LET r == RowOfUnit(call.unitId)
        IN  IF \A k \in TrueColumns(r) : ColumnMapped(k)
            THEN /\ ret = Ok(RelatedUnits(r))
                 /\ NoUnit \notin ret.val
                 /\ \A o \in OtherUnits : ~Relation(r, o.unitIndex) => o.id \notin ret.val
            ELSE ret = UnitNotFound

\* C9 witness: the row of the queried unit has a true and a false column, and the
\* result holds the unit of the true one only.
C9_Witness ==
    /\ IsUnitCall /\ available /\ IsSourceUnitId(call.unitId)
    /\ ret.status = "ok"
    /\ ret.val # {}
    /\ \E o \in OtherUnits : o.id \notin ret.val

----------------------------------------------------------------------------
(* Claims about the meter set resolver *)

\* What one meter contributes: the compatible units of its unit, nothing for the sentinel.
Contribution(m) ==
    IF meters[m].unitId = NoUnit THEN Ok({}) ELSE unitsCompatibleWithUnit(meters[m].unitId)

\* The intersection of a non-empty family of sets.
Intersection(family) == {x \in UNION family : \A S \in family : x \in S}

\* C10: for a non-empty set M of meters of the store, unitsCompatibleWithMeters(M) is
\* the intersection over the meters m of M of the compatible units of m's unit, a
\* meter with the sentinel unit contributing the empty set (and the call fails when
\* the compatible units of one of the meters cannot be resolved).
C10_MetersIntersection ==
    (IsMetersCall /\ call.meters # <<>>) =>
        LET M == Range(call.meters)
        IN  IF \E m \in M : Failed(Contribution(m))
            THEN Failed(ret)
            ELSE ret = Ok(Intersection({Contribution(m).val : m \in M}))

\* C10 witness: two meters with different, overlapping sets of compatible units.
C10_Witness ==
    /\ IsMetersCall /\ Len(call.meters) >= 2
    /\ ret.status = "ok" /\ ret.val # {}
    /\ \E m \in Range(call.meters) : Contribution(m).val # ret.val

\* C10, the sentinel: a meter without unit among the meters empties the result.
C10_WitnessSentinel ==
    /\ IsMetersCall /\ Len(call.meters) >= 2
    /\ \E m \in Range(call.meters) : meters[m].unitId = NoUnit
    /\ \E m \in Range(call.meters) : Contribution(m).val # {}
    /\ ret = Ok({})

\* The meter sets (in every iteration order) that are part of the set of the call.
SubSeqsOfCall == UNION {Orderings(S) : S \in SUBSET Range(call.meters)}

\* C11 as stated: for meter sets A and B with A a subset of B, A possibly empty,
\* unitsCompatibleWithMeters(B) is a subset of unitsCompatibleWithMeters(A).
C11_AsStated ==
    (IsMetersCall /\ ret.status = "ok") =>
        \A a \in SubSeqsOfCall :
            LET ofA == unitsCompatibleWithMeters(a)
            IN  ofA.status = "ok" /\ ret.val \subseteq ofA.val

\* C11 (amended): for meter sets A and B with A non-empty and A a subset of B, when
\* unitsCompatibleWithMeters(B) returns a set then unitsCompatibleWithMeters(A)
\* returns one too and the set of B is a subset of the set of A.
C11_Monotone ==
    (IsMetersCall /\ ret.status = "ok") =>
        \A a \in SubSeqsOfCall \ {<<>>} :
            LET ofA == unitsCompatibleWithMeters(a)
            IN  ofA.status = "ok" /\ ret.val \subseteq ofA.val

\* C11 witness: B has two meters and a non-empty result that is strictly smaller
\* than the result of one of its meters alone.
C11_Witness ==
    /\ IsMetersCall /\ Len(call.meters) = 2
    /\ ret.status = "ok" /\ ret.val # {}
    /\ \E a \in SubSeqsOfCall \ {<<>>} :
            /\ ret.val \subseteq unitsCompatibleWithMeters(a).val
            /\ ret.val # unitsCompatibleWithMeters(a).val

\* C12: unitsCompatibleWithMeters of the empty set of meters returns the empty set in
\* every state of the relation and of the catalog; no meter is read (the call
\* returns also where resolving any meter with a unit would fail).
C12_EmptyMeters ==
    (IsMetersCall /\ call.meters = <<>>) => ret = Ok({})

\* C12 witness: the empty set is passed while the relation is ready and the catalog
\* is empty, so that every meter with a unit would fail to resolve.
C12_Witness ==
    /\ IsMetersCall /\ call.meters = <<>>
    /\ available /\ units = <<>>
    /\ \E m \in DOMAIN meters : MeterLookupFails(m)
    /\ ret = Ok({})

\* C13: for every meter m of the store, unitsCompatibleWithMeters({m}) is what
\* unitsCompatibleWithUnit(unit id of m) is, the empty set when the unit of m is the
\* sentinel and when the relation is not ready.
C13_SingleMeter ==
    (IsMetersCall /\ Len(call.meters) = 1) =>
        /\ ret = unitsCompatibleWithUnit(meters[call.meters[1]].unitId)
        /\ (meters[call.meters[1]].unitId = NoUnit \/ ~available) => ret = Ok({})

\* C13 witness: one meter whose unit has compatible units.
C13_Witness ==
    /\ IsMetersCall /\ Len(call.meters) = 1
    /\ ret.status = "ok" /\ ret.val # {}

\* C14: the result of unitsCompatibleWithMeters(M) is the same for every order in
\* which the meters of M are iterated.
C14_OrderIndependent ==
    IsMetersCall =>
        \A other \in Orderings(Range(call.meters)) : unitsCompatibleWithMeters(other) = ret

\* C14 witness: two meters with different sets of compatible units and a common
\* unit, iterated with the meter of the larger set first.
C14_Witness ==
    /\ IsMetersCall /\ Len(call.meters) = 2
    /\ ret.status = "ok" /\ ret.val # {}
    /\ Contribution(call.meters[1]).val # ret.val
    /\ Contribution(call.meters[2]).val = ret.val

\* The accumulator after the first j meters of the call have been processed.
Accumulator(j) == unitsCompatibleWithMeters(SubSeq(call.meters, 1, j))

\* A meter of the call that was processed and contributed the empty set.
ContributedEmpty(i) ==
    /\ i \in DOMAIN call.meters
    /\ Contribution(call.meters[i]) = Ok({})
    /\ ~Failed(Accumulator(i))

----------------------------------------------------------------------------
(* Claims about the candidates and the menus *)

\* The compatible units of a candidate group: those of its deep meters.
UnitsOfGroup(g) == unitsCompatibleWithMeters(metersInGroup(g))

\* newUnits as each menu builder obtains it for the candidate id: the type is the
\* one the builder hands to getCompatibilityChangeCase.
NewUnitsPassed(id) ==
    CASE IsMeterMenuCall \/ IsMeterMenuCall_Rev1 -> getCompatibleUnits(id, DataTypeMeter)
      [] IsGroupMenuCall -> getCompatibleUnits(id, DataTypeGroup)
      [] IsGroupMenuCall_Rev1 -> getCompatibleUnits(id, DataTypeMeter)

\* C16 as stated: in every menu builder, of either revision, newUnits of a candidate
\* group is unitsCompatibleWithMeters of the deep meters of that group (the group id
\* is not taken for a meter id), and newUnits of a candidate meter is
\* unitsCompatibleWithUnit of the unit id of that meter.
C16_AsStated ==
    /\ (IsGroupMenuCall \/ IsGroupMenuCall_Rev1) =>
            \A g \in GroupIds : NewUnitsPassed(g) = UnitsOfGroup(g)
    /\ (IsMeterMenuCall \/ IsMeterMenuCall_Rev1) =>
            \A m \in MeterIds : NewUnitsPassed(m) = unitsCompatibleWithUnit(meters[m].unitId)

\* The change case of candidate id for the group of the call: the candidate's own
\* compatible units classified against the group's current compatible units and
\* default graphic unit.
CandidateUnits(id) ==
    IF IsGroupMenuCall THEN UnitsOfGroup(id) ELSE unitsCompatibleWithUnit(meters[id].unitId)
CandidateCase(id) ==
    groupCase(UnitsOfGroup(call.gid).val, CandidateUnits(id).val,
              groups[call.gid].defaultGraphicUnit)
CandidatesOfCall == IF IsGroupMenuCall THEN IdsOf(groups) ELSE IdsOf(meters)

\* C17: in the options returned by getMeterMenuOptionsForGroup(gid) (either revision)
\* and by getGroupMenuOptionsForGroup(gid), there is one option per candidate and it
\* is disabled if and only if the change case of the candidate is NoCompatibleUnits;
\* a candidate with one of the other three cases is enabled.
C17_DisabledIffNoCompatibleUnits ==
    ((IsMeterMenuCall \/ IsMeterMenuCall_Rev1 \/ IsGroupMenuCall) /\ ret.status = "ok") =>
        /\ Len(ret.val) = Len(CandidatesOfCall)
        /\ \A i \in DOMAIN ret.val :
              /\ ret.val[i].value = CandidatesOfCall[i]
              /\ ret.val[i].isDisabled <=> (CandidateCase(ret.val[i].value) = NoCompatibleUnits)

\* C17 witness: a menu with a disabled option, an enabled option of a candidate that
\* loses the default graphic unit and an enabled option of a candidate that changes
\* nothing.
C17_Witness ==
    /\ IsMeterMenuCall /\ ret.status = "ok"
    /\ \E i, j, k \in DOMAIN ret.val :
          /\ ret.val[i].isDisabled
          /\ ~ret.val[j].isDisabled /\ CandidateCase(ret.val[j].value) = LostDefaultGraphicUnit
          /\ ~ret.val[k].isDisabled /\ CandidateCase(ret.val[k].value) = NoChange

----------------------------------------------------------------------------
(* Claims about the effects of the operations *)

IsSetIntersectCall == call.op = "setIntersect"
IsChangeCaseCall == call.op = "getCompatibilityChangeCase"

\* The sets handed to setIntersect and to groupCase hold after the call what they
\* held before it.
ArgumentsKept ==
    /\ IsSetIntersectCall => call.after = [setA |-> call.setA, setB |-> call.setB]
    /\ (IsChangeCaseCall /\ call.classified) =>
            call.after = [currentUnits |-> call.otherUnits, newUnits |-> call.newUnits]

----------------------------------------------------------------------------
(* Claims about one classification pass *)

PassRunning == call.op = "pass" /\ ret = NoRet
PassDone == call.op = "pass" /\ ret # NoRet

\* What the builder of the pass returns when every read sees the present store.
OnePassOverStore ==
    IF call.builder = "getMeterMenuOptionsForGroup"
    THEN getMeterMenuOptionsForGroup(call.gid)
    ELSE getGroupMenuOptionsForGroup(call.gid)

----------------------------------------------------------------------------
(* Claims about the propagation to the containing groups *)

IsDiagnosticsCall == call.op = "getGroupPostUpdateDiagnostics"

\* The groups that transitively contain each group (kept by the server, not by the
\* store): group 4 is in group 1, group 1 is in group 2. The deep meters of the
\* store are those after the edit of the group and before the containing groups
\* were brought up to date.
ContainingGroups == [g \in GroupIds |-> CASE g = 1 -> {2} [] g = 4 -> {1, 2} [] OTHER -> {}]

\* The case of containing group G under the change of group gid: the units of gid
\* classified against G's own compatible units and default graphic unit.
AncestorCase(G, gid) ==
    groupCase(UnitsOfGroup(G).val, UnitsOfGroup(gid).val, groups[G].defaultGraphicUnit)

\* C20 as stated: when group gid was changed, every group that contains it is
\* classified against its own units and default unit, and
\* getGroupPostUpdateDiagnostics(gid) returns a non-empty message when a containing
\* group would reach NoCompatibleUnits (the change is cancelled) and when one is
\* classified LostDefaultGraphicUnit or LostCompatibleUnits (a warning).
C20_AsStated ==
    (IsDiagnosticsCall /\ ret.status = "ok") =>
        \A G \in ContainingGroups[call.gid] :
            (~Failed(UnitsOfGroup(G)) /\ AncestorCase(G, call.gid) # NoChange) => ret.val # <<>>

----------------------------------------------------------------------------
(* Claims about the menus before the relation is ready and about the       *)
(* classifier as a prediction of the addition                              *)

IsMenuCall == IsMeterMenuCall \/ IsGroupMenuCall \/ IsMeterMenuCall_Rev1 \/ IsGroupMenuCall_Rev1

\* C21 as stated: while the relation is not ready, every menu builder (the meter
\* menu and the group menu, of either revision) returns its options, none of them
\* disabled, one per candidate; so a disabled option is only seen once the relation
\* is ready.
C21_AsStated ==
    /\ (IsMenuCall /\ ~available) =>
            /\ ret.status = "ok"
            /\ Len(ret.val) = (IF IsMeterMenuCall \/ IsMeterMenuCall_Rev1
                               THEN Len(meters) ELSE Len(groups))
            /\ \A i \in DOMAIN ret.val : ~ret.val[i].isDisabled
    /\ (IsMenuCall /\ ret.status = "ok" /\ \E i \in DOMAIN ret.val : ret.val[i].isDisabled)
            => available

\* What holds of C21: the same for the two meter menus and the newer group menu,
\* where every candidate is moreover classified NoChange (black in the newer menus).
C21_NotReadyNoChange ==
    /\ ((IsMeterMenuCall \/ IsMeterMenuCall_Rev1 \/ IsGroupMenuCall) /\ ~available) =>
            /\ ret.status = "ok"
            /\ Len(ret.val) = Len(CandidatesOfCall)
            /\ \A i \in DOMAIN ret.val :
                  /\ ~ret.val[i].isDisabled
                  /\ CandidateCase(ret.val[i].value) = NoChange
                  /\ ~IsMeterMenuCall_Rev1 => ret.val[i].style = "black"
    /\ (IsMenuCall /\ ret.status = "ok" /\ \E i \in DOMAIN ret.val : ret.val[i].isDisabled)
            => available

\* C21, the failing case: the older group menu called before the relation is ready
\* fails on a candidate group whose id is no meter's id.
C21_Witness ==
    /\ IsGroupMenuCall_Rev1 /\ ~available
    /\ \E g \in DOMAIN groups : g \notin DOMAIN meters
    /\ ret = TypeError

\* The groups for which the classification of the call was made: those whose
\* current compatible units are the otherUnits of the call.
GroupsOfCall == {gid \in GroupIds : UnitsOfGroup(gid) = Ok(call.otherUnits)}

\* The compatible units of group gid once meter m is among its deep meters.
AfterAdding(gid, m) ==
    unitsCompatibleWithMeters(SetOfArray(Append(metersInGroup(gid), m)))

\* C22: for a group with at least one deep meter and a candidate meter m, the units
\* after the addition, unitsCompatibleWithMeters(deep meters + m), are currentUnits
\* n newUnits; getCompatibilityChangeCase returns NoChange iff that set is
\* currentUnits, and NoCompatibleUnits iff it is empty while currentUnits is not
\* (and when newUnits cannot be resolved, neither can the units after the addition).
\* For a group without deep meters currentUnits is empty and the case is NoChange,
\* while the units after the addition are unitsCompatibleWithUnit(unit of m).
C22_ClassifierAgrees ==
    (IsChangeCaseCall /\ call.type = DataTypeMeter) =>
        \A gid \in GroupsOfCall :
            LET after == AfterAdding(gid, call.id)
            IN  IF ~call.classified
                THEN Failed(ret) /\ after = ret
                ELSE IF metersInGroup(gid) # <<>>
                THEN /\ after = Ok(call.otherUnits \cap call.newUnits)
                     /\ (ret.val = NoChange) <=> (after.val = call.otherUnits)
                     /\ (ret.val = NoCompatibleUnits) <=>
                            (after.val = {} /\ call.otherUnits # {})
                ELSE /\ call.otherUnits = {}
                     /\ ret.val = NoChange
                     /\ after = unitsCompatibleWithUnit(meters[call.id].unitId)

\* C22 witness: a meter whose addition to a group with deep meters takes away some
\* of the group's units and leaves others.
C22_Witness ==
    /\ IsChangeCaseCall /\ call.type = DataTypeMeter /\ call.classified
    /\ \E gid \in GroupsOfCall :
          /\ metersInGroup(gid) # <<>>
          /\ AfterAdding(gid, call.id).val \notin {{}, call.otherUnits}
    /\ ret.val \in {LostCompatibleUnits, LostDefaultGraphicUnit}

\* C22, the group without deep meters: the case is NoChange and the units after
\* the addition are the non-empty units of the meter.
C22_WitnessNoDeepMeters ==
    /\ IsChangeCaseCall /\ call.type = DataTypeMeter /\ call.classified
    /\ \E gid \in GroupsOfCall :
          /\ metersInGroup(gid) = <<>>
          /\ AfterAdding(gid, call.id).val # {}
    /\ ret.val = NoChange

\* The cases from the least to the most severe.
SeverityOrder == <<NoChange, LostCompatibleUnits, LostDefaultGraphicUnit, NoCompatibleUnits>>
Severity(case) == CHOOSE i \in DOMAIN SeverityOrder : SeverityOrder[i] = case

\* C23: with NoChange < LostCompatibleUnits < LostDefaultGraphicUnit <
\* NoCompatibleUnits, for the currentUnits and default unit of a groupCase call every
\* subset of its newUnits is classified at least as severe as newUnits; and every
\* set with the same intersection with currentUnits as newUnits is classified the same.
C23_SeverityMonotone ==
    IsGroupCaseCall =>
        /\ \A newUnits2 \in SUBSET call.newUnits :
              Severity(groupCase(call.currentUnits, newUnits2, call.defaultGraphicUnit))
                  >= Severity(ret.val)
        /\ \A newUnits2 \in UnitIdSets :
              (call.currentUnits \cap newUnits2 = call.currentUnits \cap call.newUnits) =>
                  groupCase(call.currentUnits, newUnits2, call.defaultGraphicUnit) = ret.val

\* C23 witness: a call classified LostCompatibleUnits of which one subset of newUnits
\* is classified LostDefaultGraphicUnit and another NoCompatibleUnits, and a
\* different newUnits with the same intersection.
C23_Witness ==
    /\ IsGroupCaseCall /\ ret.val = LostCompatibleUnits
    /\ \E a, b \in SUBSET call.newUnits :
          /\ groupCase(call.currentUnits, a, call.defaultGraphicUnit) = LostDefaultGraphicUnit
          /\ groupCase(call.currentUnits, b, call.defaultGraphicUnit) = NoCompatibleUnits
    /\ call.newUnits \ call.currentUnits # {}

----------------------------------------------------------------------------
(* Claims about the group itself as a candidate of its group menu *)

NoGroupLookupFails == \A g \in DOMAIN groups : ~GroupLookupFails(g)
DeepMeters(g) == Range(groups[g].deepMeters)

\* The candidates that cannot take a unit away from group gid: gid itself and the
\* groups whose deep meters are some of gid's.
WithinGroup(gid) ==
    {c \in DOMAIN groups : c = gid \/ (DeepMeters(c) # {} /\ DeepMeters(c) \subseteq DeepMeters(gid))}

\* The case the builder of the call computes for candidate c.
BuilderCase(c) ==
    groupCase(UnitsOfGroup(call.gid).val, NewUnitsPassed(c).val,
              groups[call.gid].defaultGraphicUnit)

\* The options list gid, and every candidate of WithinGroup(gid) is classified
\* NoChange and is enabled.
OwnGroupNoChange ==
    /\ ret.status = "ok"
    /\ \E i \in DOMAIN ret.val : ret.val[i].value = call.gid
    /\ \A i \in DOMAIN ret.val :
          ret.val[i].value \in WithinGroup(call.gid) =>
              /\ ~ret.val[i].isDisabled
              /\ ~Failed(NewUnitsPassed(ret.val[i].value))
              /\ BuilderCase(ret.val[i].value) = NoChange

\* C24 as stated: in every state where the units of the groups can be resolved,
\* getGroupMenuOptionsForGroup(gid), of either revision, lists gid itself among the
\* candidates, and the option of gid and of every candidate group whose deep meters
\* are a non-empty subset of gid's is classified NoChange and is not disabled.
C24_AsStated ==
    ((IsGroupMenuCall \/ IsGroupMenuCall_Rev1) /\ NoGroupLookupFails) => OwnGroupNoChange

\* What holds of C24: the same for the newer group menu, whose options of these
\* candidates are black.
C24_NewerRevision ==
    (IsGroupMenuCall /\ NoGroupLookupFails) =>
        /\ OwnGroupNoChange
        /\ \A i \in DOMAIN ret.val :
              ret.val[i].value \in WithinGroup(call.gid) => ret.val[i].style = "black"

\* C24, the failing case: with the catalog and Pik loaded and every group's units
\* resolvable, the older group menu fails instead of listing the group.
C24_Witness ==
    /\ IsGroupMenuCall_Rev1 /\ NoGroupLookupFails
    /\ units # <<>> /\ available
    /\ UnitsOfGroup(call.gid).val # {}
    /\ ret = TypeError

\* C24 in the newer group menu: group 1 lists itself and a group within it, both
\* NoChange, next to a disabled candidate.
C24_WitnessNewer ==
    /\ IsGroupMenuCall /\ ret.status = "ok"
    /\ UnitsOfGroup(call.gid).val # {}
    /\ \E c \in WithinGroup(call.gid) : c # call.gid
    /\ \E i \in DOMAIN ret.val : ret.val[i].isDisabled

====
